---- MODULE Spec2Model ----
(***************************************************************************)
(* Model of the apartment collector: the form-to-payload builder           *)
(* (build_apartment_form), the relational persistence adapter              *)
(* (get_engine, insert_apartment, fetch_apartments), the table renderer    *)
(* (render_table) and the two page handlers.                               *)
(*                                                                         *)
(* Encoding of Python values:                                              *)
(*   str            a tuple of characters, "" is <<>>; a literal the code  *)
(*                  never takes apart is a one-element tuple <<"rent">>    *)
(*   None           <<"None">> where a str or a date is expected,          *)
(*                  NonePayload where a dict is expected                   *)
(*   float          an integer numerator over FloatDenom (a power of two,  *)
(*                  so the value and its product with the multiplier are   *)
(*                  exact binary floats and int() is exact truncation)     *)
(*   date           <<year, month, day>>                                   *)
(*   dict           a record                                               *)
(***************************************************************************)
EXTENDS Integers, Sequences, FiniteSets, TLC

VARIABLES
  config,       \* secrets and environment of the process
  engine,       \* the st.cache_resource slot of get_engine
  engineCreated,\* number of create_engine calls that returned
  store,        \* rows of the apartments table, in insertion order
  nextId,       \* next value of the table's serial id
  page,         \* page handler of the latest script run
  form,         \* widget values of the latest run of the form
  submitted,    \* whether the submit button was pressed in the latest run
  ret,          \* what build_apartment_form returned in the latest run
  errors,       \* the builder's local list errors in the latest run
  ui,           \* elements written to the page in the latest run
  insertCalls,  \* insert_apartment calls made in the latest run
  fetchCalls,   \* fetch_apartments calls made in the latest run
  raised,       \* exception the persistence call raised in the latest run
  uncaught,     \* exception that escaped the page handler in the latest run
  view          \* inputs and output of render_table in the latest run

vars == <<config, engine, engineCreated, store, nextId, page, form, submitted,
          ret, errors, ui, insertCalls, fetchCalls, raised, uncaught, view>>

----------------------------------------------------------------------------
(* Bounds *)

MaxTextLen == 2      \* longest text typed into a text widget
MaxPriceNum == 3     \* largest price numerator (price = n / FloatDenom)
FloatFracBits == 7   \* fractional bits of the floats the widgets return
MaxCount == 2        \* largest value typed into an integer widget
MaxStore == 2        \* rows the table can hold
MaxRows == 2         \* rows of a loaded frame
MaxSortRows == 3     \* rows of a frame given to the sort stage

FloatDenom == 2 ^ FloatFracBits

----------------------------------------------------------------------------
(* Python values *)

None == <<"None">>
NonePayload == [none |-> TRUE]
NoException == <<>>

Chars == {" ", "a"}
Whitespace == {" "}
EmptyText == <<>>
LKR == <<"L", "K", "R">>

Texts == UNION {[1..n -> Chars] : n \in 0..MaxTextLen}

\* bool(s) of a str
Truthy(s) == Len(s) > 0

RECURSIVE lstrip(_)
lstrip(s) ==
  IF Len(s) > 0 /\ Head(s) \in Whitespace THEN lstrip(Tail(s)) ELSE s

RECURSIVE rstrip(_)
rstrip(s) ==
  IF Len(s) > 0 /\ s[Len(s)] \in Whitespace
    THEN rstrip(SubSeq(s, 1, Len(s) - 1))
    ELSE s

\* str.strip()
strip(s) == rstrip(lstrip(s))

\* round(x) in place of int(x)
int_round(num) == (2 * num + FloatDenom) \div (2 * FloatDenom)

\* int(x) of a float x = num / FloatDenom: truncation toward zero
int(num) ==
  IF num >= 0 THEN num \div FloatDenom ELSE -((-num) \div FloatDenom)

Digit(n) == <<"0", "1", "2", "3", "4", "5", "6", "7", "8", "9">>[n + 1]

\* date.isoformat(): "YYYY-MM-DD"
isoformat(d) ==
  << Digit(d[1] \div 1000), Digit((d[1] \div 100) % 10),
     Digit((d[1] \div 10) % 10), Digit(d[1] % 10), "-",
     Digit(d[2] \div 10), Digit(d[2] % 10), "-",
     Digit(d[3] \div 10), Digit(d[3] % 10) >>

NoDate == <<>>
Today == <<2024, 6, 1>>

----------------------------------------------------------------------------
(* Schema *)

APARTMENT_COLUMNS ==
  <<
    "id", "transaction_type", "posted_date", "data_source",
    "scraped_date", "city", "area", "district",
    "address_line", "latitude", "longitude", "price_input_value",
    "price_input_unit", "price_lkr", "price_currency", "price_negotiable",
    "maintenance_fee_lkr", "maintenance_fee_per_sqft", "other_monthly_fees_lkr", "rent_frequency",
    "bedrooms", "bathrooms", "size_sqft", "furnished_status",
    "apartment_complex", "unit_type", "floor_number", "total_floors",
    "building_age_years", "completion_year", "is_brand_new", "occupancy_status",
    "project_name", "tower_name", "developer_name", "coc_available",
    "handover_status", "expected_completion_year", "has_living_room", "has_dining_area",
    "kitchen_type", "has_maids_room", "has_maids_bathroom", "has_servant_room",
    "balcony_count", "has_private_rooftop", "store_room_available", "parking_slots",
    "parking_type", "view_type", "is_high_floor", "is_corner_unit",
    "has_swimming_pool", "has_gym", "has_kids_play_area", "has_tennis_court",
    "has_basketball_court", "has_rooftop_area", "has_bbq_area", "has_clubhouse",
    "has_function_hall", "has_jogging_track", "has_spa", "has_sauna",
    "has_steam_room", "has_jacuzzi", "has_daycare_center", "has_library",
    "has_mini_market", "has_medical_center", "has_laundry_service", "has_salon",
    "has_shuttle_service", "has_community_lounge", "security_24_7", "has_cctv",
    "is_gated_community", "has_access_control", "has_backup_generator", "has_elevator",
    "elevator_count", "garbage_disposal_system", "central_gas_system", "hot_water_system",
    "internet_fiber_ready", "cable_tv_ready", "min_lease_months", "max_lease_months",
    "key_money_months", "advance_months", "security_deposit_months", "agent_fee_months",
    "electricity_separate", "water_separate", "maintenance_included_in_rent", "furnished_included_in_rent",
    "short_term_allowed", "short_term_min_nights", "title_deed_type", "bank_loan_eligible",
    "mortgage_status", "installment_plan_available", "is_resale", "foreigners_only",
    "families_only", "bachelors_allowed", "no_brokers", "pets_allowed",
    "smoking_allowed", "business_use_allowed", "notes"
  >>

Range(s) == {s[i] : i \in 1..Len(s)}

\* columns bound by insert_apartment: [col for col in APARTMENT_COLUMNS if col != "id"]
InsertColumns == SelectSeq(APARTMENT_COLUMNS, LAMBDA col : col # "id")

ColumnSet == Range(APARTMENT_COLUMNS)
InsertColumnSet == Range(InsertColumns)

----------------------------------------------------------------------------
(* Form helpers *)

optional_text(value) == IF Truthy(strip(value)) THEN strip(value) ELSE None

optional_select(value) == IF value # <<"--">> THEN value ELSE None

\* the widget keeps its default minimum of 0, whatever min_value is passed
number_input_int_default_min(min_value) == {v \in -1..MaxCount : v >= 0}

\* st.number_input(min_value=...): the widget never returns less than min_value
number_input_int(min_value) == {v \in -1..MaxCount : v >= min_value}

number_input_float(min_value) == {v \in -1..MaxPriceNum : v >= min_value}

----------------------------------------------------------------------------
(* build_apartment_form *)

\* the widgets' values when the user touches nothing
DefaultForm ==
  [
    transaction_type |-> <<"rent">>, posted_date |-> Today, scraped_date |-> Today,
    data_source |-> EmptyText, city |-> EmptyText, area |-> EmptyText,
    district |-> EmptyText, address_line |-> EmptyText, latitude |-> 0,
    longitude |-> 0, price_input_value |-> 0, price_currency |-> LKR,
    price_negotiable |-> FALSE, maintenance_fee_lkr |-> 0, maintenance_fee_per_sqft |-> 0,
    other_monthly_fees_lkr |-> 0, rent_frequency |-> <<"--">>, bedrooms |-> 1,
    floor_number |-> 0, building_age_years |-> 0, bathrooms |-> 1,
    total_floors |-> 0, completion_year |-> 0, size_sqft |-> 1,
    balcony_count |-> 0, expected_completion_year |-> 0, furnished_status |-> <<"Unfurnished">>,
    apartment_complex |-> EmptyText, unit_type |-> EmptyText, is_brand_new |-> FALSE,
    occupancy_status |-> EmptyText, project_name |-> EmptyText, tower_name |-> EmptyText,
    developer_name |-> EmptyText, coc_available |-> FALSE, handover_status |-> EmptyText,
    has_living_room |-> FALSE, has_maids_room |-> FALSE, has_servant_room |-> FALSE,
    has_private_rooftop |-> FALSE, has_dining_area |-> FALSE, has_maids_bathroom |-> FALSE,
    store_room_available |-> FALSE, kitchen_type |-> EmptyText, parking_slots |-> 0,
    parking_type |-> EmptyText, view_type |-> EmptyText, is_high_floor |-> FALSE,
    is_corner_unit |-> FALSE, has_swimming_pool |-> FALSE, has_bbq_area |-> FALSE,
    has_function_hall |-> FALSE, has_spa |-> FALSE, has_steam_room |-> FALSE,
    has_daycare_center |-> FALSE, has_medical_center |-> FALSE, has_salon |-> FALSE,
    has_gym |-> FALSE, has_kids_play_area |-> FALSE, has_jogging_track |-> FALSE,
    has_sauna |-> FALSE, has_jacuzzi |-> FALSE, has_library |-> FALSE,
    has_laundry_service |-> FALSE, has_shuttle_service |-> FALSE, has_tennis_court |-> FALSE,
    has_basketball_court |-> FALSE, has_rooftop_area |-> FALSE, has_clubhouse |-> FALSE,
    has_mini_market |-> FALSE, has_community_lounge |-> FALSE, security_24_7 |-> FALSE,
    has_access_control |-> FALSE, has_backup_generator |-> FALSE, garbage_disposal_system |-> FALSE,
    hot_water_system |-> FALSE, has_cctv |-> FALSE, is_gated_community |-> FALSE,
    has_elevator |-> FALSE, central_gas_system |-> FALSE, internet_fiber_ready |-> FALSE,
    elevator_count |-> 0, cable_tv_ready |-> FALSE, min_lease_months |-> 0,
    key_money_months |-> 0, electricity_separate |-> FALSE, furnished_included_in_rent |-> FALSE,
    max_lease_months |-> 0, advance_months |-> 0, water_separate |-> FALSE,
    short_term_allowed |-> FALSE, maintenance_included_in_rent |-> FALSE, security_deposit_months |-> 0,
    agent_fee_months |-> 0, short_term_min_nights |-> 0, title_deed_type |-> EmptyText,
    mortgage_status |-> EmptyText, is_resale |-> FALSE, bank_loan_eligible |-> FALSE,
    installment_plan_available |-> FALSE, foreigners_only |-> FALSE, bachelors_allowed |-> FALSE,
    pets_allowed |-> FALSE, families_only |-> FALSE, no_brokers |-> FALSE,
    smoking_allowed |-> FALSE, business_use_allowed |-> FALSE, notes |-> EmptyText
  ]

\* the unit no longer follows the transaction type
price_input_unit_lakhs(transaction_type) == <<"lakhs">>

price_input_unit(transaction_type) ==
  IF transaction_type = <<"rent">> THEN <<"lakhs">> ELSE <<"millions">>

price_multiplier(unit) == IF unit = <<"lakhs">> THEN 100000 ELSE 1000000

price_lkr(f) ==
  int(f.price_input_value * price_multiplier(price_input_unit(f.transaction_type)))

\* fail-fast validation: only the first violated rule is reported
ValidationErrors_failfast(price, bedrooms, bathrooms, size_sqft) ==
  IF price <= 0 THEN <<"Price must be greater than 0.">>
  ELSE IF bedrooms <= 0 THEN <<"Bedrooms must be greater than 0.">>
  ELSE IF bathrooms <= 0 THEN <<"Bathrooms must be greater than 0.">>
  ELSE IF size_sqft <= 0 THEN <<"Size (sqft) must be greater than 0.">>
  ELSE <<>>

ValidationErrors(price, bedrooms, bathrooms, size_sqft) ==
  (IF price <= 0 THEN <<"Price must be greater than 0.">> ELSE <<>>)
  \o (IF bedrooms <= 0 THEN <<"Bedrooms must be greater than 0.">> ELSE <<>>)
  \o (IF bathrooms <= 0 THEN <<"Bathrooms must be greater than 0.">> ELSE <<>>)
  \o (IF size_sqft <= 0 THEN <<"Size (sqft) must be greater than 0.">> ELSE <<>>)

Payload(f) ==
  [
    transaction_type |-> f.transaction_type,
    posted_date |-> isoformat(f.posted_date),
    data_source |-> optional_text(f.data_source),
    scraped_date |-> IF f.scraped_date # NoDate THEN isoformat(f.scraped_date) ELSE None,
    city |-> optional_text(f.city),
    area |-> optional_text(f.area),
    district |-> optional_text(f.district),
    address_line |-> optional_text(f.address_line),
    latitude |-> f.latitude,
    longitude |-> f.longitude,
    price_input_value |-> f.price_input_value,
    price_input_unit |-> price_input_unit(f.transaction_type),
    price_lkr |-> price_lkr(f),
    price_currency |-> IF Truthy(f.price_currency) THEN f.price_currency ELSE LKR,
    price_negotiable |-> f.price_negotiable,
    maintenance_fee_lkr |-> f.maintenance_fee_lkr,
    maintenance_fee_per_sqft |-> f.maintenance_fee_per_sqft,
    other_monthly_fees_lkr |-> f.other_monthly_fees_lkr,
    rent_frequency |-> optional_select(f.rent_frequency),
    bedrooms |-> f.bedrooms,
    bathrooms |-> f.bathrooms,
    size_sqft |-> f.size_sqft,
    furnished_status |-> f.furnished_status,
    apartment_complex |-> optional_text(f.apartment_complex),
    unit_type |-> optional_text(f.unit_type),
    floor_number |-> f.floor_number,
    total_floors |-> f.total_floors,
    building_age_years |-> f.building_age_years,
    completion_year |-> f.completion_year,
    is_brand_new |-> f.is_brand_new,
    occupancy_status |-> optional_text(f.occupancy_status),
    project_name |-> optional_text(f.project_name),
    tower_name |-> optional_text(f.tower_name),
    developer_name |-> optional_text(f.developer_name),
    coc_available |-> f.coc_available,
    handover_status |-> optional_text(f.handover_status),
    expected_completion_year |-> f.expected_completion_year,
    has_living_room |-> f.has_living_room,
    has_dining_area |-> f.has_dining_area,
    kitchen_type |-> optional_text(f.kitchen_type),
    has_maids_room |-> f.has_maids_room,
    has_maids_bathroom |-> f.has_maids_bathroom,
    has_servant_room |-> f.has_servant_room,
    balcony_count |-> f.balcony_count,
    has_private_rooftop |-> f.has_private_rooftop,
    store_room_available |-> f.store_room_available,
    parking_slots |-> f.parking_slots,
    parking_type |-> optional_text(f.parking_type),
    view_type |-> optional_text(f.view_type),
    is_high_floor |-> f.is_high_floor,
    is_corner_unit |-> f.is_corner_unit,
    has_swimming_pool |-> f.has_swimming_pool,
    has_gym |-> f.has_gym,
    has_kids_play_area |-> f.has_kids_play_area,
    has_tennis_court |-> f.has_tennis_court,
    has_basketball_court |-> f.has_basketball_court,
    has_rooftop_area |-> f.has_rooftop_area,
    has_bbq_area |-> f.has_bbq_area,
    has_clubhouse |-> f.has_clubhouse,
    has_function_hall |-> f.has_function_hall,
    has_jogging_track |-> f.has_jogging_track,
    has_spa |-> f.has_spa,
    has_sauna |-> f.has_sauna,
    has_steam_room |-> f.has_steam_room,
    has_jacuzzi |-> f.has_jacuzzi,
    has_daycare_center |-> f.has_daycare_center,
    has_library |-> f.has_library,
    has_mini_market |-> f.has_mini_market,
    has_medical_center |-> f.has_medical_center,
    has_laundry_service |-> f.has_laundry_service,
    has_salon |-> f.has_salon,
    has_shuttle_service |-> f.has_shuttle_service,
    has_community_lounge |-> f.has_community_lounge,
    security_24_7 |-> f.security_24_7,
    has_cctv |-> f.has_cctv,
    is_gated_community |-> f.is_gated_community,
    has_access_control |-> f.has_access_control,
    has_backup_generator |-> f.has_backup_generator,
    has_elevator |-> f.has_elevator,
    elevator_count |-> f.elevator_count,
    garbage_disposal_system |-> f.garbage_disposal_system,
    central_gas_system |-> f.central_gas_system,
    hot_water_system |-> f.hot_water_system,
    internet_fiber_ready |-> f.internet_fiber_ready,
    cable_tv_ready |-> f.cable_tv_ready,
    min_lease_months |-> f.min_lease_months,
    max_lease_months |-> f.max_lease_months,
    key_money_months |-> f.key_money_months,
    advance_months |-> f.advance_months,
    security_deposit_months |-> f.security_deposit_months,
    agent_fee_months |-> f.agent_fee_months,
    electricity_separate |-> f.electricity_separate,
    water_separate |-> f.water_separate,
    maintenance_included_in_rent |-> f.maintenance_included_in_rent,
    furnished_included_in_rent |-> f.furnished_included_in_rent,
    short_term_allowed |-> f.short_term_allowed,
    short_term_min_nights |-> f.short_term_min_nights,
    title_deed_type |-> optional_text(f.title_deed_type),
    bank_loan_eligible |-> f.bank_loan_eligible,
    mortgage_status |-> optional_text(f.mortgage_status),
    installment_plan_available |-> f.installment_plan_available,
    is_resale |-> f.is_resale,
    foreigners_only |-> f.foreigners_only,
    families_only |-> f.families_only,
    bachelors_allowed |-> f.bachelors_allowed,
    no_brokers |-> f.no_brokers,
    pets_allowed |-> f.pets_allowed,
    smoking_allowed |-> f.smoking_allowed,
    business_use_allowed |-> f.business_use_allowed,
    notes |-> IF Truthy(f.notes) THEN strip(f.notes) ELSE None
  ]


\* st.error / st.write / st.success / st.info elements
Element(kind, text) == [kind |-> kind, text |-> text]

\* a rejected submission returns the list of errors instead of None
BuildApartmentForm_sentinel(f, is_submitted) ==
  LET errs == ValidationErrors(f.price_input_value, f.bedrooms, f.bathrooms, f.size_sqft)
  IN  IF ~is_submitted
        THEN [ret |-> NonePayload, errors |-> <<>>, ui |-> <<>>]
        ELSE IF errs # <<>>
          THEN [ret |-> [rejected |-> errs], errors |-> errs,
                ui |-> <<Element("error", <<"Please fix the following issues before saving:">>)>>
                       \o [i \in 1..Len(errs) |-> Element("write", <<"- ", errs[i]>>)]]
          ELSE [ret |-> Payload(f), errors |-> errs, ui |-> <<>>]

\* the payload is built without its last key
BuildApartmentForm_missing_notes(f, is_submitted) ==
  LET errs == ValidationErrors(f.price_input_value, f.bedrooms, f.bathrooms, f.size_sqft)
  IN  IF ~is_submitted
        THEN [ret |-> NonePayload, errors |-> <<>>, ui |-> <<>>]
        ELSE IF errs # <<>>
          THEN [ret |-> NonePayload, errors |-> errs,
                ui |-> <<Element("error", <<"Please fix the following issues before saving:">>)>>
                       \o [i \in 1..Len(errs) |-> Element("write", <<"- ", errs[i]>>)]]
          ELSE [ret |-> [k \in (DOMAIN Payload(f)) \ {"notes"} |-> Payload(f)[k]],
                errors |-> errs, ui |-> <<>>]

\* the value returned, the local list errors and the elements written
BuildApartmentForm(f, is_submitted) ==
  LET errs == ValidationErrors(f.price_input_value, f.bedrooms, f.bathrooms, f.size_sqft)
  IN  IF ~is_submitted
        THEN [ret |-> NonePayload, errors |-> <<>>, ui |-> <<>>]
        ELSE IF errs # <<>>
          THEN [ret |-> NonePayload, errors |-> errs,
                ui |-> <<Element("error", <<"Please fix the following issues before saving:">>)>>
                       \o [i \in 1..Len(errs) |-> Element("write", <<"- ", errs[i]>>)]]
          ELSE [ret |-> Payload(f), errors |-> errs, ui |-> <<>>]

----------------------------------------------------------------------------
(* Configuration: get_database_uri *)

\* a URI is <<scheme, host>>; "" is <<>>; a missing key or variable is None
IsSet(value) == value # None /\ Len(value) > 0

_normalize_postgres_uri(uri) ==
  IF uri[1] = "postgresql+psycopg://" THEN uri
  ELSE IF uri[1] \in {"postgres://", "postgresql://"}
    THEN <<"postgresql+psycopg://", uri[2]>>
    ELSE uri

_apply_overrides(cfg, uri) ==
  IF ~IsSet(cfg.DATABASE_IPV4_HOST) THEN uri ELSE <<uri[1], cfg.DATABASE_IPV4_HOST[1]>>

secret_paths == <<"uri", "database.uri", "postgres.uri">>

\* _read_from_secrets(path): the value under the path, None when a key is missing
_read_from_secrets(cfg, path) == cfg.secrets[path]

RECURSIVE FirstSecret(_, _)
FirstSecret(cfg, i) ==
  IF i > Len(secret_paths) THEN None
  ELSE IF IsSet(_read_from_secrets(cfg, secret_paths[i]))
    THEN _read_from_secrets(cfg, secret_paths[i])
    ELSE FirstSecret(cfg, i + 1)

\* a built-in default URI in place of the RuntimeError
get_database_uri_default(cfg) ==
  LET value == FirstSecret(cfg, 1)
  IN  IF IsSet(value)
        THEN [raised |-> NoException,
              value |-> _apply_overrides(cfg, _normalize_postgres_uri(value))]
        ELSE IF IsSet(cfg.DATABASE_URI)
          THEN [raised |-> NoException,
                value |-> _apply_overrides(cfg, _normalize_postgres_uri(cfg.DATABASE_URI))]
          ELSE [raised |-> NoException, value |-> <<"sqlite://", "local">>]

\* DATABASE_URI is looked up before the secrets
get_database_uri_env_first(cfg) ==
  LET value == FirstSecret(cfg, 1)
  IN  IF IsSet(cfg.DATABASE_URI)
        THEN [raised |-> NoException,
              value |-> _apply_overrides(cfg, _normalize_postgres_uri(cfg.DATABASE_URI))]
        ELSE IF IsSet(value)
          THEN [raised |-> NoException,
                value |-> _apply_overrides(cfg, _normalize_postgres_uri(value))]
          ELSE [raised |-> <<"RuntimeError">>, value |-> None]

\* [raised, value]: the URI returned, or RuntimeError raised
get_database_uri(cfg) ==
  LET value == FirstSecret(cfg, 1)
  IN  IF IsSet(value)
        THEN [raised |-> NoException,
              value |-> _apply_overrides(cfg, _normalize_postgres_uri(value))]
        ELSE IF IsSet(cfg.DATABASE_URI)
          THEN [raised |-> NoException,
                value |-> _apply_overrides(cfg, _normalize_postgres_uri(cfg.DATABASE_URI))]
          ELSE [raised |-> <<"RuntimeError">>, value |-> None]

----------------------------------------------------------------------------
(* Persistence: get_engine, insert_apartment, fetch_apartments *)

\* without st.cache_resource: every call creates an engine
get_engine_uncached(cfg, cached) ==
  LET u == get_database_uri(cfg)
  IN  IF u.raised # NoException
        THEN [raised |-> u.raised, engine |-> None, created |-> 0]
        ELSE [raised |-> NoException, engine |-> u.value, created |-> 1]

\* st.cache_resource: the body runs when nothing is cached; a raise caches nothing
get_engine(cfg, cached) ==
  IF cached # None
    THEN [raised |-> NoException, engine |-> cached, created |-> 0]
    ELSE LET u == get_database_uri(cfg)
         IN  IF u.raised # NoException
               THEN [raised |-> u.raised, engine |-> None, created |-> 0]
               ELSE [raised |-> NoException, engine |-> u.value, created |-> 1]

\* the row the INSERT adds: the named binds of the payload, id from the table
Row(payload, id) ==
  [col \in ColumnSet |-> IF col = "id" THEN id ELSE payload[col]]

\* the INSERT replaces the table's rows instead of adding to them
insert_apartment_overwrite(payload, cfg, cached, rows, id, db_ok) ==
  LET e == get_engine(cfg, cached)
  IN  IF e.raised # NoException
        THEN [raised |-> e.raised, engine |-> e.engine, created |-> e.created,
              rows |-> rows, id |-> id]
        ELSE IF ~db_ok
          THEN [raised |-> <<"OperationalError">>, engine |-> e.engine,
                created |-> e.created, rows |-> rows, id |-> id]
          ELSE [raised |-> NoException, engine |-> e.engine, created |-> e.created,
                rows |-> <<Row(payload, id)>>, id |-> id + 1]

\* db_ok: whether the server accepts the connection and the statement
insert_apartment(payload, cfg, cached, rows, id, db_ok) ==
  LET e == get_engine(cfg, cached)
  IN  IF e.raised # NoException
        THEN [raised |-> e.raised, engine |-> e.engine, created |-> e.created,
              rows |-> rows, id |-> id]
        ELSE IF ~db_ok
          THEN [raised |-> <<"OperationalError">>, engine |-> e.engine,
                created |-> e.created, rows |-> rows, id |-> id]
          ELSE IF ~(InsertColumnSet \subseteq DOMAIN payload)
            THEN [raised |-> <<"StatementError">>, engine |-> e.engine,
                  created |-> e.created, rows |-> rows, id |-> id]
            ELSE [raised |-> NoException, engine |-> e.engine, created |-> e.created,
                  rows |-> Append(rows, Row(payload, id)), id |-> id + 1]

NaT == <<"NaT">>

IsDigit(c) == \E n \in 0..9 : Digit(n) = c

DigitValue(c) == CHOOSE n \in 0..9 : Digit(n) = c

DaysInMonth(y, m) ==
  IF m = 2
    THEN (IF y % 4 = 0 /\ (y % 100 # 0 \/ y % 400 = 0) THEN 29 ELSE 28)
    ELSE IF m \in {4, 6, 9, 11} THEN 30 ELSE 31

\* pd.to_datetime(value, errors="coerce") of one cell: <<year, month, day>> or NaT
to_datetime(s) ==
  IF s = None \/ Len(s) # 10 THEN NaT
  ELSE IF ~(s[5] = "-" /\ s[8] = "-" /\ \A i \in {1, 2, 3, 4, 6, 7, 9, 10} : IsDigit(s[i]))
    THEN NaT
    ELSE LET y == 1000 * DigitValue(s[1]) + 100 * DigitValue(s[2])
                  + 10 * DigitValue(s[3]) + DigitValue(s[4])
             m == 10 * DigitValue(s[6]) + DigitValue(s[7])
             d == 10 * DigitValue(s[9]) + DigitValue(s[10])
         IN  IF m \in 1..12 /\ d >= 1 /\ d <= DaysInMonth(y, m) THEN <<y, m, d>> ELSE NaT

DateLess(a, b) ==
  \/ a[1] < b[1]
  \/ a[1] = b[1] /\ a[2] < b[2]
  \/ a[1] = b[1] /\ a[2] = b[2] /\ a[3] < b[3]

IndexPermutations(n) == {p \in [1..n -> 1..n] : \A i, j \in 1..n : p[i] = p[j] => i = j}

\* ORDER BY posted_date DESC, id DESC
OrderBy(rows) ==
  LET Before(r1, r2) ==
        \/ DateLess(to_datetime(r2.posted_date), to_datetime(r1.posted_date))
        \/ r1.posted_date = r2.posted_date /\ r1.id > r2.id
      p == CHOOSE q \in IndexPermutations(Len(rows)) :
             \A i, j \in 1..Len(rows) : i < j => Before(rows[q[i]], rows[q[j]])
  IN  [i \in 1..Len(rows) |-> rows[p[i]]]

\* a DataFrame: its column labels in order and its rows in order
DataFrame(columns, rows) == [columns |-> columns, rows |-> rows]

fetch_apartments(cfg, cached, rows, db_ok) ==
  LET e == get_engine(cfg, cached)
  IN  IF e.raised # NoException
        THEN [raised |-> e.raised, engine |-> e.engine, created |-> e.created,
              df |-> DataFrame(<<>>, <<>>)]
        ELSE IF ~db_ok
          THEN [raised |-> <<"OperationalError">>, engine |-> e.engine,
                created |-> e.created, df |-> DataFrame(<<>>, <<>>)]
          ELSE [raised |-> NoException, engine |-> e.engine, created |-> e.created,
                df |-> DataFrame(APARTMENT_COLUMNS, OrderBy(rows))]

----------------------------------------------------------------------------
(* Table renderer: _apply_filters, _apply_sort, render_table *)

SORT_OPTIONS ==
  << <<"posted_date (newest first)">>, <<"price_lkr (low to high)">>,
     <<"price_lkr (high to low)">>, <<"size_sqft (high to low)">> >>

HasColumn(df, col) == col \in Range(df.columns)

lower(c) == IF c = "A" THEN "a" ELSE c

\* Series.str.contains(pat, case=False) of one cell: regex defaults to True,
\* so pat is a regular expression searched with re.IGNORECASE; "." stands
\* for any character, every other character of the filters here is literal
contains(s, pat) ==
  \E i \in 0..(Len(s) - Len(pat)) :
    \A j \in 1..Len(pat) : pat[j] = "." \/ lower(s[i + j]) = lower(pat[j])

\* Series.fillna("") of one cell
fillna(v) == IF v = None THEN EmptyText ELSE v

\* the transaction type is matched without regard to case
_apply_filters_ci(df, filter_type, district_filter) ==
  LET Fold(v) == IF v = <<"Rent">> THEN <<"rent">> ELSE IF v = <<"Sale">> THEN <<"sale">> ELSE v
      by_type ==
        IF filter_type # <<"All">>
          THEN SelectSeq(df.rows, LAMBDA r : Fold(r.transaction_type) = filter_type)
          ELSE df.rows
  IN  IF ~Truthy(district_filter)
        THEN [raised |-> NoException, df |-> DataFrame(df.columns, by_type)]
        ELSE [raised |-> NoException,
              df |-> DataFrame(df.columns,
                       SelectSeq(by_type,
                         LAMBDA r : contains(fillna(r.district), district_filter)))]

\* [raised, df]
_apply_filters(df, filter_type, district_filter) ==
  IF filter_type # <<"All">> /\ ~HasColumn(df, "transaction_type")
    THEN [raised |-> <<"KeyError">>, df |-> df]
  ELSE LET by_type ==
             IF filter_type # <<"All">>
               THEN SelectSeq(df.rows, LAMBDA r : r.transaction_type = filter_type)
               ELSE df.rows
       IN  IF ~Truthy(district_filter)
             THEN [raised |-> NoException, df |-> DataFrame(df.columns, by_type)]
             ELSE IF ~HasColumn(df, "district")
               THEN [raised |-> <<"KeyError">>, df |-> df]
               ELSE [raised |-> NoException,
                     df |-> DataFrame(df.columns,
                              SelectSeq(by_type,
                                LAMBDA r : contains(fillna(r.district), district_filter)))]

\* rows with a missing key are put first
sort_values_na_first(rows, by, ascending) ==
  LET Na(r) == by = "posted_date" /\ r[by] = NaT
      Less(r1, r2) == IF by = "posted_date" THEN DateLess(r1[by], r2[by])
                                            ELSE r1[by] < r2[by]
      keyed == SelectSeq(rows, LAMBDA r : ~Na(r))
      missing == SelectSeq(rows, Na)
      Sorted(p) ==
        \A i, j \in 1..Len(keyed) :
          i < j => IF ascending THEN ~Less(keyed[p[j]], keyed[p[i]])
                                ELSE ~Less(keyed[p[i]], keyed[p[j]])
  IN  {missing \o [i \in 1..Len(keyed) |-> keyed[p[i]]] :
         p \in {q \in IndexPermutations(Len(keyed)) : Sorted(q)}}

\* DataFrame.sort_values(by=..., ascending=...) with the default kind
\* "quicksort" and na_position "last": rows with a missing key go last in
\* their prior order; the sort is not stable, rows with equal keys may come
\* in any order
sort_values(rows, by, ascending) ==
  LET Na(r) == by = "posted_date" /\ r[by] = NaT
      Less(r1, r2) == IF by = "posted_date" THEN DateLess(r1[by], r2[by])
                                            ELSE r1[by] < r2[by]
      keyed == SelectSeq(rows, LAMBDA r : ~Na(r))
      missing == SelectSeq(rows, Na)
      Sorted(p) ==
        \A i, j \in 1..Len(keyed) :
          i < j => IF ascending THEN ~Less(keyed[p[j]], keyed[p[i]])
                                ELSE ~Less(keyed[p[i]], keyed[p[j]])
  IN  {[i \in 1..Len(keyed) |-> keyed[p[i]]] \o missing :
         p \in {q \in IndexPermutations(Len(keyed)) : Sorted(q)}}

\* "price_lkr (high to low)" sorts low to high
_apply_sort_ascending(df, sort_option) ==
  LET by == IF sort_option = SORT_OPTIONS[1] THEN "posted_date"
            ELSE IF sort_option \in {SORT_OPTIONS[2], SORT_OPTIONS[3]} THEN "price_lkr"
            ELSE "size_sqft"
      parsed == [i \in 1..Len(df.rows) |->
                   [df.rows[i] EXCEPT !.posted_date = to_datetime(@)]]
  IN  IF sort_option \notin Range(SORT_OPTIONS)
        THEN [raised |-> NoException, dfs |-> {df}]
      ELSE IF ~HasColumn(df, by)
        THEN [raised |-> <<"KeyError">>, dfs |-> {df}]
      ELSE IF sort_option = SORT_OPTIONS[1]
        THEN [raised |-> NoException,
              dfs |-> {DataFrame(df.columns, s) :
                         s \in sort_values(parsed, "posted_date", FALSE)}]
      ELSE IF sort_option = SORT_OPTIONS[2]
        THEN [raised |-> NoException,
              dfs |-> {DataFrame(df.columns, s) :
                         s \in sort_values(df.rows, "price_lkr", TRUE)}]
      ELSE IF sort_option = SORT_OPTIONS[3]
        THEN [raised |-> NoException,
              dfs |-> {DataFrame(df.columns, s) :
                         s \in sort_values(df.rows, "price_lkr", TRUE)}]
        ELSE [raised |-> NoException,
              dfs |-> {DataFrame(df.columns, s) :
                         s \in sort_values(df.rows, "size_sqft", FALSE)}]

\* [raised, dfs]: the dataframes the sort can return
_apply_sort(df, sort_option) ==
  LET by == IF sort_option = SORT_OPTIONS[1] THEN "posted_date"
            ELSE IF sort_option \in {SORT_OPTIONS[2], SORT_OPTIONS[3]} THEN "price_lkr"
            ELSE "size_sqft"
      parsed == [i \in 1..Len(df.rows) |->
                   [df.rows[i] EXCEPT !.posted_date = to_datetime(@)]]
  IN  IF sort_option \notin Range(SORT_OPTIONS)
        THEN [raised |-> NoException, dfs |-> {df}]
      ELSE IF ~HasColumn(df, by)
        THEN [raised |-> <<"KeyError">>, dfs |-> {df}]
      ELSE IF sort_option = SORT_OPTIONS[1]
        THEN [raised |-> NoException,
              dfs |-> {DataFrame(df.columns, s) :
                         s \in sort_values(parsed, "posted_date", FALSE)}]
      ELSE IF sort_option = SORT_OPTIONS[2]
        THEN [raised |-> NoException,
              dfs |-> {DataFrame(df.columns, s) :
                         s \in sort_values(df.rows, "price_lkr", TRUE)}]
      ELSE IF sort_option = SORT_OPTIONS[3]
        THEN [raised |-> NoException,
              dfs |-> {DataFrame(df.columns, s) :
                         s \in sort_values(df.rows, "price_lkr", FALSE)}]
        ELSE [raised |-> NoException,
              dfs |-> {DataFrame(df.columns, s) :
                         s \in sort_values(df.rows, "size_sqft", FALSE)}]

\* df[col] = None for every canonical column the frame lacks, then
\* df.reset_index(drop=True)[APARTMENT_COLUMNS]
WithCanonicalColumns(df) ==
  LET present == Range(df.columns)
  IN  DataFrame(APARTMENT_COLUMNS,
        [i \in 1..Len(df.rows) |->
           [col \in ColumnSet |->
              IF col \in present THEN df.rows[i][col] ELSE None]])

\* the outcomes of render_table: [raised, filtered, shown]
render_table(df, filter_type, district_filter, sort_option) ==
  LET f == _apply_filters(df, filter_type, district_filter)
      s == _apply_sort(f.df, sort_option)
  IN  IF f.raised # NoException
        THEN {[raised |-> f.raised, filtered |-> f.df, shown |-> DataFrame(<<>>, <<>>)]}
      ELSE IF s.raised # NoException
        THEN {[raised |-> s.raised, filtered |-> f.df, shown |-> DataFrame(<<>>, <<>>)]}
        ELSE {[raised |-> NoException, filtered |-> f.df,
               shown |-> WithCanonicalColumns(d)] : d \in s.dfs}

----------------------------------------------------------------------------
(* Inputs *)

TextFields ==
  {"data_source", "city", "area", "district", "address_line", "apartment_complex",
   "unit_type", "occupancy_status", "project_name", "tower_name", "developer_name",
   "handover_status", "kitchen_type", "parking_type", "view_type", "title_deed_type",
   "mortgage_status"}

\* what the widgets can return: one text widget filled in, the numeric
\* widgets within their min_value
FormInputs ==
  {[DefaultForm EXCEPT !.transaction_type = t, !.price_input_value = p,
                       !.bedrooms = b, !.bathrooms = ba, !.size_sqft = sz,
                       ![k] = txt] :
     t \in {<<"rent">>, <<"sale">>}, p \in number_input_float(0),
     b \in number_input_int(1), ba \in number_input_int(1), sz \in number_input_int(1),
     k \in TextFields \cup {"notes"}, txt \in Texts}

\* the forms submitted on the Add Apartment page
PageForms ==
  {[DefaultForm EXCEPT !.transaction_type = t, !.price_input_value = p] :
     t \in {<<"rent">>, <<"sale">>}, p \in {v \in number_input_float(0) : v <= 1}}

URI(source) ==
  CASE source = "uri" -> <<"postgresql+psycopg://", "h1">>
    [] source = "database.uri" -> <<"postgres://", "h2">>
    [] source = "postgres.uri" -> <<"postgresql://", "h3">>
    [] source = "DATABASE_URI" -> <<"sqlite://", "h4">>

\* every secret path and the environment variable absent, empty or set
Configs ==
  {[secrets |-> s, DATABASE_URI |-> env, DATABASE_IPV4_HOST |-> host] :
     s \in {t \in [Range(secret_paths) -> {None, EmptyText} \cup
                                           {URI(path) : path \in Range(secret_paths)}] :
              \A path \in Range(secret_paths) : t[path] \in {None, EmptyText, URI(path)}},
     env \in {None, EmptyText, URI("DATABASE_URI")},
     host \in {None, <<"10.0.0.1">>}}

\* the configurations the page handlers run under
PageConfigs ==
  {c \in Configs :
     /\ c.DATABASE_IPV4_HOST = None
     /\ c.secrets["database.uri"] = None /\ c.secrets["postgres.uri"] = None
     /\ c.secrets["uri"] # EmptyText /\ c.DATABASE_URI # EmptyText}

----------------------------------------------------------------------------
(* Page handlers *)

NoView == [rendered |-> FALSE]

Init ==
  /\ config \in PageConfigs
  /\ engine = None
  /\ engineCreated = 0
  /\ store = <<>>
  /\ nextId = 1
  /\ page = "none"
  /\ form = DefaultForm
  /\ submitted = FALSE
  /\ ret = NonePayload
  /\ errors = <<>>
  /\ ui = <<>>
  /\ insertCalls = 0
  /\ fetchCalls = 0
  /\ raised = NoException
  /\ uncaught = NoException
  /\ view = NoView

\* the call without its try/except: the exception leaves the handler
try_insert_unguarded(i) ==
  IF i.raised = NoException
    THEN [ui |-> <<Element("success", <<"Apartment saved successfully!">>)>>,
          uncaught |-> NoException]
    ELSE [ui |-> <<>>, uncaught |-> i.raised]

\* try: insert_apartment(payload); st.success(...)  except Exception: st.error(...)
\* i is the outcome of the call: what is written and what escapes the handler
try_insert(i) ==
  IF i.raised = NoException
    THEN [ui |-> <<Element("success", <<"Apartment saved successfully!">>)>>,
          uncaught |-> NoException]
    ELSE [ui |-> <<Element("error", <<"Error while saving the apartment: ", i.raised[1]>>)>>,
          uncaught |-> NoException]

\* try: df = fetch_apartments()  except Exception: st.error(...); return
try_fetch(fa) ==
  IF fa.raised = NoException
    THEN [ui |-> <<>>, uncaught |-> NoException]
    ELSE [ui |-> <<Element("error", <<"Error while loading data: ", fa.raised[1]>>)>>,
          uncaught |-> NoException]

\* page_add_apartment for one script run
AddApartment(f, is_submitted, db_ok) ==
  LET b == BuildApartmentForm(f, is_submitted)
      i == insert_apartment(b.ret, config, engine, store, nextId, db_ok)
  IN  /\ page' = "add"
      /\ form' = f
      /\ submitted' = is_submitted
      /\ ret' = b.ret
      /\ errors' = b.errors
      /\ fetchCalls' = 0
      /\ view' = NoView
      /\ IF b.ret = NonePayload
           THEN /\ ui' = b.ui
                /\ insertCalls' = 0
                /\ raised' = NoException
                /\ uncaught' = NoException
                /\ UNCHANGED <<engine, engineCreated, store, nextId>>
           ELSE /\ Len(i.rows) <= MaxStore
                /\ insertCalls' = 1
                /\ raised' = i.raised
                /\ engine' = i.engine
                /\ engineCreated' = engineCreated + i.created
                /\ store' = i.rows
                /\ nextId' = i.id
                /\ ui' = b.ui \o try_insert(i).ui
                /\ uncaught' = try_insert(i).uncaught
      /\ UNCHANGED config

PageAddApartment ==
  \E f \in PageForms, is_submitted \in BOOLEAN :
    IF BuildApartmentForm(f, is_submitted).ret = NonePayload
      THEN AddApartment(f, is_submitted, TRUE)
      ELSE \E db_ok \in BOOLEAN : AddApartment(f, is_submitted, db_ok)

\* the widget values tried on the View Data page
PageFilterTypes == {<<"All">>, <<"rent">>}
PageDistrictFilters == {EmptyText, <<"a">>}
PageSortOptions == {SORT_OPTIONS[1], SORT_OPTIONS[2]}

\* page_view_data for one script run; the widgets of render_table take their
\* values only when the table is rendered
PageViewData ==
  \E db_ok \in BOOLEAN :
    LET fa == fetch_apartments(config, engine, store, db_ok)
    IN  /\ page' = "view"
        /\ fetchCalls' = 1
        /\ insertCalls' = 0
        /\ engine' = fa.engine
        /\ engineCreated' = engineCreated + fa.created
        /\ raised' = fa.raised
        /\ IF fa.raised # NoException
             THEN /\ ui' = try_fetch(fa).ui
                  /\ view' = NoView
                  /\ uncaught' = try_fetch(fa).uncaught
             ELSE IF fa.df.rows = <<>>
               THEN /\ ui' = <<Element("info",
                                 <<"No data found yet. Please add some apartments first.">>)>>
                    /\ view' = NoView
                    /\ uncaught' = NoException
               ELSE \E filter_type \in PageFilterTypes,
                       district_filter \in PageDistrictFilters,
                       sort_option \in PageSortOptions :
                      \E r \in render_table(fa.df, filter_type, district_filter,
                                            sort_option) :
                        /\ ui' = try_fetch(fa).ui
                        /\ uncaught' = r.raised
                        /\ view' = [rendered |-> TRUE, filter_type |-> filter_type,
                                    district_filter |-> district_filter,
                                    sort_option |-> sort_option, loaded |-> fa.df,
                                    filtered |-> r.filtered, shown |-> r.shown]
        /\ form' = DefaultForm
        /\ submitted' = FALSE
        /\ ret' = NonePayload
        /\ errors' = <<>>
        /\ UNCHANGED <<config, store, nextId>>

Next == PageAddApartment \/ PageViewData

Spec == Init /\ [][Next]_vars

----------------------------------------------------------------------------
(* The builder on its own, over every form the widgets can return *)

InitForm ==
  /\ config = [secrets |-> [path \in Range(secret_paths) |-> None],
               DATABASE_URI |-> None, DATABASE_IPV4_HOST |-> None]
  /\ engine = None
  /\ engineCreated = 0
  /\ store = <<>>
  /\ nextId = 1
  /\ page = "none"
  /\ form \in FormInputs
  /\ submitted \in BOOLEAN
  /\ ret = NonePayload
  /\ errors = <<>>
  /\ ui = <<>>
  /\ insertCalls = 0
  /\ fetchCalls = 0
  /\ raised = NoException
  /\ uncaught = NoException
  /\ view = NoView

BuildForm ==
  LET b == BuildApartmentForm(form, submitted)
  IN  /\ page = "none"
      /\ page' = "form"
      /\ ret' = b.ret
      /\ errors' = b.errors
      /\ ui' = b.ui
      /\ UNCHANGED <<config, engine, engineCreated, store, nextId, form, submitted,
                     insertCalls, fetchCalls, raised, uncaught, view>>

SpecForm == InitForm /\ [][BuildForm]_vars

----------------------------------------------------------------------------
(* The table renderer on its own, over loaded frames of any content *)

TableColumns == <<"id", "transaction_type", "posted_date", "district", "price_lkr", "size_sqft">>

BadDate == <<"b", "a", "d">>

TableCells ==
  [transaction_type : {<<"rent">>, <<"sale">>, <<"Rent">>},
   posted_date : {isoformat(Today), BadDate},
   district : {None, <<"A", "b">>, <<"b">>},
   price_lkr : {1},
   size_sqft : {1}]

\* frames of up to MaxRows rows, ids in loading order
TableFrames ==
  {DataFrame(TableColumns,
     [i \in 1..n |->
        [id |-> i, transaction_type |-> cells[i].transaction_type,
         posted_date |-> cells[i].posted_date, district |-> cells[i].district,
         price_lkr |-> cells[i].price_lkr, size_sqft |-> cells[i].size_sqft]]) :
     n \in 1..MaxRows, cells \in [1..MaxRows -> TableCells]}

\* the texts typed into "Filter by district"
TableDistrictFilters == {EmptyText, <<"a">>, <<".">>}

InitTable ==
  /\ config = [secrets |-> [path \in Range(secret_paths) |-> None],
               DATABASE_URI |-> None, DATABASE_IPV4_HOST |-> None]
  /\ engine = None
  /\ engineCreated = 0
  /\ store = <<>>
  /\ nextId = 1
  /\ page = "none"
  /\ form = DefaultForm
  /\ submitted = FALSE
  /\ ret = NonePayload
  /\ errors = <<>>
  /\ ui = <<>>
  /\ insertCalls = 0
  /\ fetchCalls = 0
  /\ raised = NoException
  /\ uncaught = NoException
  /\ \E df \in TableFrames, filter_type \in {<<"All">>, <<"rent">>, <<"sale">>},
        district_filter \in TableDistrictFilters, sort_option \in Range(SORT_OPTIONS) :
       view = [rendered |-> FALSE, filter_type |-> filter_type,
               district_filter |-> district_filter, sort_option |-> sort_option,
               loaded |-> df]

RenderTable ==
  /\ page = "none"
  /\ page' = "table"
  /\ \E r \in render_table(view.loaded, view.filter_type, view.district_filter,
                          view.sort_option) :
       /\ uncaught' = r.raised
       /\ view' = [rendered |-> TRUE, filter_type |-> view.filter_type,
                   district_filter |-> view.district_filter,
                   sort_option |-> view.sort_option, loaded |-> view.loaded,
                   filtered |-> r.filtered, shown |-> r.shown]
  /\ UNCHANGED <<config, engine, engineCreated, store, nextId, form, submitted, ret,
                 errors, ui, insertCalls, fetchCalls, raised>>

SpecTable == InitTable /\ [][RenderTable]_vars

----------------------------------------------------------------------------
(* The sort stage of the renderer, over frames whose sort keys vary *)

SortDates == {<<2024, 1, 1>>, Today}

SortCells ==
  [posted_date : {isoformat(d) : d \in SortDates} \cup {BadDate},
   price_lkr : {1, 2}]

\* frames of up to MaxSortRows rows, ids in loading order; the larger
\* apartment is the cheaper one
SortFrames ==
  {DataFrame(TableColumns,
     [i \in 1..n |->
        [id |-> i, transaction_type |-> <<"rent">>,
         posted_date |-> cells[i].posted_date, district |-> None,
         price_lkr |-> cells[i].price_lkr, size_sqft |-> 3 - cells[i].price_lkr]]) :
     n \in 1..MaxSortRows, cells \in [1..MaxSortRows -> SortCells]}

InitSort ==
  /\ config = [secrets |-> [path \in Range(secret_paths) |-> None],
               DATABASE_URI |-> None, DATABASE_IPV4_HOST |-> None]
  /\ engine = None
  /\ engineCreated = 0
  /\ store = <<>>
  /\ nextId = 1
  /\ page = "none"
  /\ form = DefaultForm
  /\ submitted = FALSE
  /\ ret = NonePayload
  /\ errors = <<>>
  /\ ui = <<>>
  /\ insertCalls = 0
  /\ fetchCalls = 0
  /\ raised = NoException
  /\ uncaught = NoException
  /\ \E df \in SortFrames, sort_option \in Range(SORT_OPTIONS) :
       view = [rendered |-> FALSE, filter_type |-> <<"All">>,
               district_filter |-> EmptyText, sort_option |-> sort_option,
               loaded |-> df]

SpecSort == InitSort /\ [][RenderTable]_vars

----------------------------------------------------------------------------
(* The URI lookup on its own, over every configuration *)

InitConfig ==
  /\ config \in Configs
  /\ engine = None
  /\ engineCreated = 0
  /\ store = <<>>
  /\ nextId = 1
  /\ page = "none"
  /\ form = DefaultForm
  /\ submitted = FALSE
  /\ ret = NonePayload
  /\ errors = <<>>
  /\ ui = <<>>
  /\ insertCalls = 0
  /\ fetchCalls = 0
  /\ raised = NoException
  /\ uncaught = NoException
  /\ view = NoView

\* the first get_engine() of the process: the engine is bound to the URI that
\* get_database_uri() returns
GetEngine ==
  LET e == get_engine(config, engine)
  IN  /\ page = "none"
      /\ page' = "config"
      /\ engine' = e.engine
      /\ engineCreated' = engineCreated + e.created
      /\ raised' = e.raised
      /\ UNCHANGED <<config, store, nextId, form, submitted, ret, errors, ui,
                     insertCalls, fetchCalls, uncaught, view>>

SpecConfig == InitConfig /\ [][GetEngine]_vars

----------------------------------------------------------------------------
(* The renderer over frames whose columns differ from the canonical schema *)

\* a column that is not in APARTMENT_COLUMNS
ExtraColumn == "location"

\* the columns a loaded frame can have: any of TableColumns, in schema
\* order, with or without the extra column in front
DriftColumns ==
  {(IF extra THEN <<ExtraColumn>> ELSE <<>>)
     \o SelectSeq(TableColumns, LAMBDA col : col \in present) :
     present \in SUBSET Range(TableColumns), extra \in BOOLEAN}

DriftCell(col, i, date) ==
  CASE col = "id" -> i
    [] col = "transaction_type" -> <<"rent">>
    [] col = "posted_date" -> date
    [] col = "district" -> <<"a">>
    [] col = "price_lkr" -> 1
    [] col = "size_sqft" -> 1
    [] col = ExtraColumn -> <<"a">>

DriftFrames ==
  {DataFrame(columns,
     [i \in 1..n |-> [col \in Range(columns) |-> DriftCell(col, i, dates[i])]]) :
     columns \in DriftColumns, n \in 1..MaxRows,
     dates \in [1..MaxRows -> {isoformat(Today), BadDate}]}

InitDrift ==
  /\ config = [secrets |-> [path \in Range(secret_paths) |-> None],
               DATABASE_URI |-> None, DATABASE_IPV4_HOST |-> None]
  /\ engine = None
  /\ engineCreated = 0
  /\ store = <<>>
  /\ nextId = 1
  /\ page = "none"
  /\ form = DefaultForm
  /\ submitted = FALSE
  /\ ret = NonePayload
  /\ errors = <<>>
  /\ ui = <<>>
  /\ insertCalls = 0
  /\ fetchCalls = 0
  /\ raised = NoException
  /\ uncaught = NoException
  /\ \E df \in DriftFrames, filter_type \in PageFilterTypes,
        district_filter \in PageDistrictFilters, sort_option \in Range(SORT_OPTIONS) :
       view = [rendered |-> FALSE, filter_type |-> filter_type,
               district_filter |-> district_filter, sort_option |-> sort_option,
               loaded |-> df]

SpecDrift == InitDrift /\ [][RenderTable]_vars


----------------------------------------------------------------------------
(* Properties *)

Rent == <<"rent">>
Sale == <<"sale">>

RequiredFields == {"price_input_value", "bedrooms", "bathrooms", "size_sqft"}

Violated(f) == {k \in RequiredFields : f[k] <= 0}

Message(k) ==
  CASE k = "price_input_value" -> "Price must be greater than 0."
    [] k = "bedrooms" -> "Bedrooms must be greater than 0."
    [] k = "bathrooms" -> "Bathrooms must be greater than 0."
    [] k = "size_sqft" -> "Size (sqft) must be greater than 0."

ErrorElements(elements) == SelectSeq(elements, LAMBDA e : e.kind = "error")

\* C1: a submitted form with bedrooms, bathrooms, size_sqft and
\* price_input_value all > 0 yields a record whose price_lkr is the floor of
\* price_input_value times 100,000 (rent) or 1,000,000 (sale): the one integer
\* k with k <= value * multiplier < k + 1.
C1_PriceLkrIsFloor ==
  (page = "form" /\ submitted /\ Violated(form) = {}) =>
    /\ ret # NonePayload
    /\ LET product == form.price_input_value
                        * (IF form.transaction_type = Rent THEN 100000 ELSE 1000000)
       IN  /\ ret.price_lkr * FloatDenom <= product
           /\ product < (ret.price_lkr + 1) * FloatDenom

C1_Witness ==
  /\ page = "form" /\ submitted /\ ret # NonePayload
  /\ form.transaction_type = Sale
  /\ (form.price_input_value * 1000000) % FloatDenom # 0
  /\ ret.price_lkr > 0

\* C2: a submitted form with one or more of the four required fields <= 0
\* yields no record and a non-empty error list with exactly one message per
\* violated field, each written to the page, and the page handler makes no
\* insert_apartment call; the four checks all run, so values violating
\* several rules at once get one message per rule.
C2_RejectsWithOneMessagePerField ==
  /\ (page = "add" /\ submitted /\ Violated(form) # {}) =>
       /\ ret = NonePayload
       /\ errors # <<>>
       /\ Len(errors) = Cardinality(Violated(form))
       /\ \A k \in Violated(form) : Message(k) \in Range(errors)
       /\ {e.text : e \in {x \in Range(ui) : x.kind = "write"}}
            = {<<"- ", Message(k)>> : k \in Violated(form)}
       /\ Len(ErrorElements(ui)) = 1
       /\ insertCalls = 0
  /\ \A p, b, ba, sz \in -1..1 :
       LET f == [price_input_value |-> p, bedrooms |-> b, bathrooms |-> ba, size_sqft |-> sz]
           e == ValidationErrors(p, b, ba, sz)
       IN  /\ Len(e) = Cardinality(Violated(f))
           /\ \A k \in Violated(f) : Message(k) \in Range(e)

C2_Witness ==
  /\ page = "add" /\ submitted /\ form.price_input_value = 0
  /\ ret = NonePayload /\ Len(errors) = 1 /\ insertCalls = 0

\* C3 as stated: the value returned for a rejected submission is distinct
\* from the value returned when the form was not submitted.
C3_RejectedDistinctFromUnsubmitted ==
  (page = "add" /\ submitted /\ errors # <<>>) =>
    ret # BuildApartmentForm(form, FALSE).ret

\* C3 amended: the returned value tells two outcomes apart, a record
\* (accepted) or None (not submitted or rejected); a rejected submission
\* returns the same None as an unsubmitted form and differs from it only by
\* the error messages the builder writes to the page.
C3_RejectedReturnsNoneLikeUnsubmitted ==
  page = "add" =>
    /\ (ret # NonePayload) <=> (submitted /\ Violated(form) = {})
    /\ (submitted /\ Violated(form) # {}) =>
         /\ ret = BuildApartmentForm(form, FALSE).ret
         /\ Len(ErrorElements(ui)) = 1
    /\ ~submitted => ret = NonePayload /\ ui = <<>>

C3_Witness ==
  /\ page = "add" /\ submitted /\ Violated(form) # {}
  /\ ret = NonePayload /\ ui # <<>>

OptionalTextKeys == TextFields \cup {"notes"}

\* C4: in every record returned, every optional free-text field (the
\* optional_text fields and notes) is null or a non-empty string without
\* leading or trailing whitespace.
C4_OptionalTextNullOrTrimmed ==
  (page = "form" /\ ret # NonePayload) =>
    \A k \in OptionalTextKeys :
      \/ ret[k] = None
      \/ /\ Len(ret[k]) > 0
         /\ ret[k][1] \notin Whitespace
         /\ ret[k][Len(ret[k])] \notin Whitespace

\* C5: in every record returned, transaction_type is rent or sale and
\* price_input_unit is "lakhs" exactly for rent and "millions" exactly for sale.
C5_UnitFollowsTransactionType ==
  (page = "form" /\ ret # NonePayload) =>
    /\ ret.transaction_type \in {Rent, Sale}
    /\ ret.price_input_unit \in {<<"lakhs">>, <<"millions">>}
    /\ (ret.price_input_unit = <<"lakhs">>) <=> (ret.transaction_type = Rent)
    /\ (ret.price_input_unit = <<"millions">>) <=> (ret.transaction_type = Sale)

C5_Witness ==
  /\ page = "form" /\ ret # NonePayload
  /\ ret.transaction_type = Sale /\ ret.price_input_unit = <<"millions">>

\* C6: the record returned on success has exactly the keys of
\* APARTMENT_COLUMNS other than id, so every column insert_apartment binds is
\* present, an optional field left blank is present as null, and id is absent.
C6_PayloadKeysAreSchemaMinusId ==
  (page = "form" /\ ret # NonePayload) =>
    /\ DOMAIN ret = {APARTMENT_COLUMNS[i] : i \in 1..Len(APARTMENT_COLUMNS)} \ {"id"}
    /\ \A i \in 1..Len(InsertColumns) : InsertColumns[i] \in DOMAIN ret
    /\ "id" \notin DOMAIN ret
    /\ \A k \in TextFields : form[k] = EmptyText => ret[k] = None

C6_Witness ==
  /\ page = "form" /\ ret # NonePayload
  /\ form.city = EmptyText /\ ret.city = None
  /\ form.district # EmptyText /\ ret.district # None

\* C7: the table is append-only: a step leaves the rows already stored as
\* they are and adds at most one; it adds one exactly when the step is an
\* accepted submission whose insert succeeded, and the row added carries the
\* record returned by the builder.
C7_AppendOnly ==
  [][/\ Len(store') \in {Len(store), Len(store) + 1}
     /\ SubSeq(store', 1, Len(store)) = store
     /\ (Len(store') = Len(store) + 1)
          <=> (page' = "add" /\ submitted' /\ ret' # NonePayload /\ raised' = NoException)
     /\ (Len(store') = Len(store) + 1) =>
          \A k \in DOMAIN ret' : store'[Len(store')][k] = ret'[k]]_vars

C7_Witness ==
  /\ Len(store) = 2
  /\ page = "view" /\ view.rendered /\ Len(view.shown.rows) < Len(store)

\* a new submission that reaches insert_apartment, and one that is stored
RetrySubmission == PageAddApartment /\ insertCalls' = 1

RetrySucceeds == PageAddApartment /\ Len(store') = Len(store) + 1

\* C8: a persistence error raised by insert_apartment or fetch_apartments
\* does not leave the page handler; it is written as one error element, the
\* run makes one call and no second attempt, and a new submission can be
\* attempted afterwards, which succeeds when the server accepts it.
C8_PersistenceErrorCaught ==
  /\ insertCalls + fetchCalls <= 1
  /\ raised # NoException =>
       /\ insertCalls + fetchCalls = 1
       /\ uncaught = NoException
       /\ Len(ui) = 1
       /\ ui[1].kind = "error"
       /\ ui[1].text[2] = raised[1]
       /\ ENABLED RetrySubmission
       /\ (raised = <<"OperationalError">> /\ Len(store) < MaxStore) =>
            ENABLED RetrySucceeds

C8_Witness ==
  /\ page = "add" /\ raised = <<"OperationalError">>
  /\ Len(store) = 1 /\ Len(ui) = 1

Resolvable(cfg) ==
  \/ \E path \in DOMAIN cfg.secrets : cfg.secrets[path] \notin {None, EmptyText}
  \/ cfg.DATABASE_URI \notin {None, EmptyText}

Position(rows, r) == CHOOSE i \in 1..Len(rows) : rows[i] = r

\* C10: the transaction-type filter keeps only rows whose transaction_type
\* equals the selected value exactly, keeps all of them when no district
\* filter is set, keeps the rows in their loaded order without repeats, and
\* "All" drops no row.
C10_TypeFilterIsExactSubset ==
  (page = "table" /\ view.rendered) =>
    LET kept == view.filtered.rows
        loaded == view.loaded.rows
    IN  /\ uncaught = NoException
        /\ \A i \in 1..Len(kept) :
             /\ \E j \in 1..Len(loaded) : loaded[j] = kept[i]
             /\ view.filter_type # <<"All">> =>
                  kept[i].transaction_type = view.filter_type
        /\ \A i, j \in 1..Len(kept) :
             i < j => Position(loaded, kept[i]) < Position(loaded, kept[j])
        /\ view.district_filter = EmptyText =>
             \A j \in 1..Len(loaded) :
               (\E i \in 1..Len(kept) : kept[i] = loaded[j])
                 <=> (view.filter_type = <<"All">>
                        \/ loaded[j].transaction_type = view.filter_type)

C10_Witness ==
  /\ page = "table" /\ view.rendered
  /\ view.filter_type = Rent /\ view.district_filter = EmptyText
  /\ Len(view.loaded.rows) = 2
  /\ view.loaded.rows[1].transaction_type = <<"Rent">>
  /\ view.loaded.rows[2].transaction_type = Rent
  /\ Len(view.filtered.rows) = 1

\* literal, case-insensitive substring test
IsSubstringIgnoringCase(s, pat) ==
  \E i \in 0..(Len(s) - Len(pat)) :
    \A j \in 1..Len(pat) : lower(s[i + j]) = lower(pat[j])

\* C14: with no type filter, the district filter keeps exactly the rows whose
\* district, a null district taken as the empty string, contains the typed
\* text as a case-insensitive substring; an empty text keeps every row.
C14_DistrictFilterIsSubstringMatch ==
  (page = "table" /\ view.rendered /\ view.filter_type = <<"All">>) =>
    LET kept == view.filtered.rows
        loaded == view.loaded.rows
    IN  /\ uncaught = NoException
        /\ \A j \in 1..Len(loaded) :
             (\E i \in 1..Len(kept) : kept[i] = loaded[j])
               <=> IsSubstringIgnoringCase(
                     IF loaded[j].district = None THEN EmptyText ELSE loaded[j].district,
                     view.district_filter)

\* ids of the shown rows, in display order
ShownIds == [i \in 1..Len(view.shown.rows) |-> view.shown.rows[i].id]

\* the posted_date text the row with this id was loaded with
LoadedDate(id) == view.loaded.rows[id].posted_date

Parsable(text) == \E d \in SortDates : isoformat(d) = text

DateOf(text) == CHOOSE d \in SortDates : isoformat(d) = text

\* C11: under "posted_date (newest first)" every loaded row is shown once,
\* the rows whose posted_date does not parse all come after every row whose
\* posted_date parses, and the rows with a parsable date are in descending
\* date order.
C11_UnparsableLastValidDescending ==
  (page = "table" /\ view.rendered /\ view.sort_option = SORT_OPTIONS[1]) =>
    /\ uncaught = NoException
    /\ Len(ShownIds) = Len(view.loaded.rows)
    /\ Range(ShownIds) = 1..Len(view.loaded.rows)
    /\ \A i, j \in 1..Len(ShownIds) :
         i < j =>
           /\ ~Parsable(LoadedDate(ShownIds[i])) => ~Parsable(LoadedDate(ShownIds[j]))
           /\ (Parsable(LoadedDate(ShownIds[i])) /\ Parsable(LoadedDate(ShownIds[j]))) =>
                ~DateLess(DateOf(LoadedDate(ShownIds[i])), DateOf(LoadedDate(ShownIds[j])))

C11_Witness ==
  /\ page = "table" /\ view.rendered /\ view.sort_option = SORT_OPTIONS[1]
  /\ Len(view.loaded.rows) = 3
  /\ LoadedDate(1) = isoformat(<<2024, 1, 1>>)
  /\ LoadedDate(2) = BadDate
  /\ LoadedDate(3) = isoformat(<<2024, 6, 1>>)
  /\ ShownIds = <<3, 1, 2>>

\* the sort key the row with this id was loaded with, under the selected
\* ordering
LoadedKey(id) ==
  LET r == view.loaded.rows[id]
  IN  IF view.sort_option = SORT_OPTIONS[1]
        THEN (IF Parsable(r.posted_date) THEN DateOf(r.posted_date) ELSE NaT)
      ELSE IF view.sort_option = SORT_OPTIONS[4] THEN <<r.size_sqft>>
      ELSE <<r.price_lkr>>

ShownIsPermutation ==
  /\ uncaught = NoException
  /\ Len(ShownIds) = Len(view.loaded.rows)
  /\ Range(ShownIds) = 1..Len(view.loaded.rows)
  /\ \A i \in 1..Len(ShownIds) :
       \A col \in Range(TableColumns) \ {"posted_date"} :
         view.shown.rows[i][col] = view.loaded.rows[ShownIds[i]][col]

C13_ShownColumnsAreCanonical ==
  (page = "table" /\ view.rendered) =>
    LET present == Range(view.loaded.columns) \cap ColumnSet
    IN  /\ uncaught = NoException
        /\ view.shown.columns = APARTMENT_COLUMNS
        /\ Len(view.shown.rows) = Len(view.filtered.rows)
        /\ \A i \in 1..Len(view.shown.rows) :
             /\ DOMAIN view.shown.rows[i] = ColumnSet
             /\ \A col \in ColumnSet \ present : view.shown.rows[i][col] = None
             /\ \E j \in 1..Len(view.loaded.rows) :
                  \A col \in present :
                    view.shown.rows[i][col] = view.loaded.rows[j][col]

\* C15: no engine exists before the first fetch_apartments or
\* insert_apartment call; a run that makes no such call creates none; the
\* first call made while a database URI resolves creates the engine; once
\* created it is the engine of every later call and no second one is created.
C15_EngineCreatedOnceOnFirstUse ==
  /\ [](/\ engineCreated <= 1
        /\ engine = None <=> engineCreated = 0
        /\ page = "none" => engine = None)
  /\ [][/\ engine # None => (engine' = engine /\ engineCreated' = engineCreated)
        /\ insertCalls' + fetchCalls' = 0 => engine' = engine
        /\ (engine = None /\ insertCalls' + fetchCalls' = 1 /\ Resolvable(config))
             => (engine' # None /\ engineCreated' = 1)
        /\ (engine = None /\ engine' # None) => insertCalls' + fetchCalls' = 1]_vars

C15_Witness ==
  /\ page = "view" /\ fetchCalls = 1 /\ raised = NoException
  /\ Len(store) = 2
  /\ engine # None /\ engineCreated = 1

Yields(value) == value \notin {None, EmptyText}

\* the first source, in the stated order, that holds a non-empty value
FirstYielding(cfg) ==
  IF Yields(cfg.secrets["uri"]) THEN "uri"
  ELSE IF Yields(cfg.secrets["database.uri"]) THEN "database.uri"
  ELSE IF Yields(cfg.secrets["postgres.uri"]) THEN "postgres.uri"
  ELSE IF Yields(cfg.DATABASE_URI) THEN "DATABASE_URI"
  ELSE "nothing"

\* C16: the URI is taken from the first of uri, database.uri, postgres.uri
\* that holds a non-empty value, from DATABASE_URI only when none of the
\* three does, and RuntimeError is raised, no URI returned, when nothing
\* holds one. The URI returned is that source's value with its postgres
\* scheme normalised and, when DATABASE_IPV4_HOST is set, its host replaced.
C16_FirstYieldingSourceWins ==
  page = "config" =>
    LET source == FirstYielding(config)
    IN  IF source = "nothing"
          THEN raised = <<"RuntimeError">> /\ engine = None
          ELSE /\ raised = NoException
               /\ engine[1] = (IF source = "DATABASE_URI" THEN "sqlite://"
                                                          ELSE "postgresql+psycopg://")
               /\ engine[2] = (IF Yields(config.DATABASE_IPV4_HOST)
                                 THEN config.DATABASE_IPV4_HOST[1]
                                 ELSE URI(source)[2])

C16_Witness ==
  /\ page = "config"
  /\ config.secrets["uri"] = EmptyText
  /\ config.secrets["database.uri"] = None
  /\ config.secrets["postgres.uri"] = URI("postgres.uri")
  /\ config.DATABASE_URI = URI("DATABASE_URI")
  /\ config.DATABASE_IPV4_HOST = None
  /\ engine = <<"postgresql+psycopg://", "h3">>

\* C17: the forms the widgets can return have bedrooms, bathrooms and
\* size_sqft >= 1 and price_input_value >= 0, so the builder never reports a
\* bedrooms, bathrooms or size error, and every rejected submission has
\* price_input_value = 0 and carries the one message "Price must be greater
\* than 0.", shown as the only error.
C17_OnlyPriceRuleCanFail ==
  page = "form" =>
    /\ form.bedrooms >= 1 /\ form.bathrooms >= 1 /\ form.size_sqft >= 1
    /\ form.price_input_value >= 0
    /\ \A k \in RequiredFields \ {"price_input_value"} :
         /\ Message(k) \notin Range(errors)
         /\ \A i \in 1..Len(ui) : ui[i].text # <<"- ", Message(k)>>
    /\ (submitted /\ ret = NonePayload) =>
         /\ form.price_input_value = 0
         /\ errors = <<Message("price_input_value")>>
         /\ Len(ErrorElements(ui)) = 1

C17_Witness ==
  /\ page = "form" /\ submitted /\ ret = NonePayload
  /\ form.price_input_value = 0
  /\ form.bedrooms = MaxCount /\ form.size_sqft = 1
  /\ errors = <<"Price must be greater than 0.">>

====
